---- MODULE Spec2Model ----
(***************************************************************************)
(* dataset-foundry: the marker protocol that splits one sandbox output     *)
(* stream into a setup result and a test result (run_unit_tests.py), and   *)
(* the quit/cancel lifecycle of the full display (full_display_app.py).    *)
(*                                                                         *)
(* Text is a sequence of one-character strings, so that find, the regular  *)
(* expression search, the slices and strip("\n") are computed on           *)
(* characters as Python computes them.                                     *)
(***************************************************************************)
EXTENDS Integers, Sequences, FiniteSets, TLC

VARIABLES
    \* ---- _split_stream called on its own
    output,           \* the text handed to _split_stream
    split_out,        \* what it returned, or NotCalled
    \* ---- run_unit_tests_action, one invocation for one item
    ut_pc,            \* where the invocation is
    resolved_sandbox, \* line 38
    resolved_setup_property, \* line 37
    proc_stdout,      \* what the sandboxed process has written so far
    proc_stderr,
    returned_result,  \* the SandboxResult as the adapter returned it
    sandbox_result,   \* the same object when the action is over
    pytest_result,    \* _parse_sandbox_result(...)[0]
    setup_result,     \* _parse_sandbox_result(...)[1], or Unbound
    proc_writes,      \* how many pieces it has written
    pushes,           \* item.push calls, in order: [key, value]
    sandbox_runs,     \* calls of SandboxRunner.run
    local_runs,       \* calls of run_python_unit_tests
    raised,           \* the exception that ended the invocation, or "none"
    \* ---- FullDisplay.run_pipeline and its FullDisplayApp
    session,          \* the app: "constructed", "mounted", "exited"
    run_pipeline_pc,  \* FullDisplay.run_pipeline: "awaiting_app", "returned"
    no_exit,          \* params.get("no_exit", False)
    _pipeline_worker, \* "None", or the worker's state
    _is_quitting,
    pipeline,         \* self._pipeline.run: "not_started", "running",
                      \* "cleanup" (its own try/finally), "finished"
    outcome,          \* how pipeline.run ends: "none", "ok", "error", "cancelled"
    cancel_cb,        \* _cancel_after_delay: "none", "posted", "sleeping", "done"
    timer,            \* what is left of its asyncio.sleep
    slept,            \* how long it has slept
    console,          \* cleanup notices appended to console_service
    active_tab,       \* the tab _select_tab chose last
    dirty,            \* the screen waits for a refresh
    notice_rendered,  \* a refresh has painted since the notice was appended
    cancel_scheduled, \* calls of call_later(_cancel_after_delay)
    cancel_signals,   \* calls of worker.cancel()
    exit_calls,       \* calls of self.exit()
    quit_requests,    \* calls of action_quit
    error_reported    \* the worker failed and the app reported it

splitVars == <<output, split_out>>
utVars == <<ut_pc, resolved_sandbox, resolved_setup_property, proc_stdout,
            proc_stderr, proc_writes, returned_result, sandbox_result, pytest_result,
            setup_result, pushes, sandbox_runs, local_runs, raised>>
appVars == <<session, run_pipeline_pc, no_exit, _pipeline_worker, _is_quitting,
             pipeline, outcome, cancel_cb, timer, slept, console, active_tab,
             dirty, notice_rendered, cancel_scheduled, cancel_signals,
             exit_calls, quit_requests, error_reported>>
vars == <<splitVars, utVars, appVars>>

\* Python's None, and an int where None may stand too (a returncode)
None == [none |-> TRUE]
Some(n) == [int |-> n]

\* a resolved parameter: None, or a value with its Python type
PyStr(v) == [type |-> "str", value |-> v]
PyInt(n) == [type |-> "int", value |-> n]
PyList(l) == [type |-> "list", value |-> l]

\* bool(v), as `if v:` takes it
truthy(v) ==
    IF v = None THEN FALSE
    ELSE CASE v.type = "str" -> v.value # ""
           [] v.type = "int" -> v.value # 0
           [] v.type = "list" -> v.value # <<>>

\* isinstance(v, str)
isinstance_str(v) == v # None /\ v.type = "str"

\* a local variable that was never assigned
Unbound == [bound |-> FALSE]

----------------------------------------------------------------------------
(* Text *)

Min(S) == CHOOSE x \in S : \A y \in S : x <= y

\* mutant: the slice starts one character early
SliceFrom_one_early(s, k) == SubSeq(s, k, Len(s))

\* s[k:] with a 0-based k
SliceFrom(s, k) == SubSeq(s, k + 1, Len(s))

\* s[:k] with a 0-based k
SliceTo(s, k) == SubSeq(s, 1, k)

\* pat occurs in s at the 0-based index k
OccursAt(s, pat, k) ==
    /\ k + Len(pat) <= Len(s)
    /\ SubSeq(s, k + 1, k + Len(pat)) = pat

\* str.find: the lowest 0-based index where pat occurs, or -1
find(s, pat) ==
    LET hits == {k \in 0..(Len(s) - 1) : OccursAt(s, pat, k)}
    IN  IF hits = {} THEN -1 ELSE Min(hits)

Digits == {"0", "1", "2", "3", "4", "5", "6", "7", "8", "9"}

DigitValue(c) ==
    CASE c = "0" -> 0 [] c = "1" -> 1 [] c = "2" -> 2 [] c = "3" -> 3
      [] c = "4" -> 4 [] c = "5" -> 5 [] c = "6" -> 6 [] c = "7" -> 7
      [] c = "8" -> 8 [] c = "9" -> 9

\* int(): the decimal value of a run of digits
RECURSIVE int(_)
int(ds) ==
    IF ds = <<>> THEN 0
    ELSE 10 * int(SubSeq(ds, 1, Len(ds) - 1)) + DigitValue(ds[Len(ds)])

\* the number of digits of s from the 0-based index k on (\d+ is greedy)
RECURSIVE DigitRun(_, _)
DigitRun(s, k) ==
    IF k < Len(s) /\ s[k + 1] \in Digits THEN 1 + DigitRun(s, k + 1) ELSE 0

\* str.strip("\n"): the newlines at the two ends go, nothing else
RECURSIVE lstrip_nl(_)
lstrip_nl(s) ==
    IF s # <<>> /\ s[1] = "\n" THEN lstrip_nl(Tail(s)) ELSE s

RECURSIVE rstrip_nl(_)
rstrip_nl(s) ==
    IF s # <<>> /\ s[Len(s)] = "\n" THEN rstrip_nl(SubSeq(s, 1, Len(s) - 1)) ELSE s

\* mutant: only the line breaks at the end go
strip_nl_right_only(s) == rstrip_nl(s)

\* mutant: all white space at the two ends goes, as with str.strip()
strip_whitespace(s) ==
    LET keep == {k \in 1..Len(s) : s[k] \notin {"\n", " ", "\t", "\r"}}
    IN  IF keep = {} THEN <<>>
        ELSE SubSeq(s, Min(keep), CHOOSE k \in keep : \A j \in keep : j <= k)

strip_nl(s) == rstrip_nl(lstrip_nl(s))

----------------------------------------------------------------------------
(* The marker protocol *)

SETUP_START ==
    <<":", ":", "s", "e", "t", "u", "p", ":", "s", "t", "a", "r", "t", ":", ":">>

\* the literal parts of SETUP_END_PATTERN, r"::setup:end:(\d+)::"
SETUP_END_HEAD == <<":", ":", "s", "e", "t", "u", "p", ":", "e", "n", "d", ":">>
SETUP_END_TAIL == <<":", ":">>

NoMatch == [matched |-> FALSE]

\* SETUP_END_PATTERN matches s at the 0-based index k
EndMatchesAt(s, k) ==
    /\ OccursAt(s, SETUP_END_HEAD, k)
    /\ LET n == DigitRun(s, k + Len(SETUP_END_HEAD))
       IN  /\ n >= 1
           /\ OccursAt(s, SETUP_END_TAIL, k + Len(SETUP_END_HEAD) + n)

\* SETUP_END_PATTERN.search(s): the leftmost match, with start(), end() and group(1)
SETUP_END_PATTERN_search(s) ==
    LET hits == {k \in 0..(Len(s) - 1) : EndMatchesAt(s, k)}
    IN  IF hits = {} THEN NoMatch
        ELSE LET k == Min(hits)
                 d == k + Len(SETUP_END_HEAD)
                 n == DigitRun(s, d)
             IN  [matched |-> TRUE,
                  start   |-> k,
                  end     |-> d + n + Len(SETUP_END_TAIL),
                  group1  |-> SubSeq(s, d + 1, d + n)]

\* _split_stream: <<pytest content, setup content, setup exit code>>
_split_stream(out) ==
    LET start_idx == find(out, SETUP_START)
    IN  IF start_idx = -1
        THEN <<strip_nl(out), <<>>, None>>
        ELSE LET content_after_start == SliceFrom(out, start_idx + Len(SETUP_START))
                 end_match == SETUP_END_PATTERN_search(content_after_start)
             IN  IF ~end_match.matched
                 THEN <<<<>>, strip_nl(content_after_start), Some(-1)>>
                 ELSE <<strip_nl(SliceFrom(content_after_start, end_match.end)),
                        strip_nl(SliceTo(content_after_start, end_match.start)),
                        Some(int(end_match.group1))>>

----------------------------------------------------------------------------
(* Inputs: texts put together from pieces of the protocol *)

END0 == SETUP_END_HEAD \o <<"0">> \o SETUP_END_TAIL
END1 == SETUP_END_HEAD \o <<"1">> \o SETUP_END_TAIL

\* what a sandboxed process writes: markers, a line of text, a line break
ProcWrites == {SETUP_START, END0, END1, <<"x">>, <<"\n">>}

\* the same and the pieces of a broken or many-digit end marker, a blank,
\* a line with line breaks around it, and a line that starts with a tab and
\* ends with a carriage return and a line break
Fragments ==
    ProcWrites \cup {SETUP_END_HEAD, <<"7">>, SETUP_END_TAIL, <<" ">>,
                     <<"\n", "a", " ", "b", "\n">>, <<"\t", "x", "\r", "\n">>}

MaxFrags == 4

RECURSIVE Texts(_, _)
Texts(pieces, n) ==
    IF n = 0 THEN {<<>>}
    ELSE LET shorter == Texts(pieces, n - 1)
         IN  shorter \cup {t \o p : t \in shorter, p \in pieces}

NotCalled == [called |-> FALSE]
Returned(v) == [called |-> TRUE, value |-> v]

----------------------------------------------------------------------------
(* _split_stream on its own *)

SplitInit ==
    /\ output \in Texts(Fragments, MaxFrags)
    /\ split_out = NotCalled

SplitCall ==
    /\ split_out = NotCalled
    /\ split_out' = Returned(_split_stream(output))
    /\ UNCHANGED output
    /\ UNCHANGED <<utVars, appVars>>

----------------------------------------------------------------------------
(* Results *)

\* CommandResult(command, returncode, stdout, stderr)
CommandResult(command, returncode, stdout, stderr) ==
    [command |-> command, returncode |-> returncode,
     stdout |-> stdout, stderr |-> stderr]

\* CommandResult.success
success(r) == r.returncode = Some(0)

\* mutant: stderr's setup code is taken first
select_setup_code_stderr_first(setup_stdout_code, setup_stderr_code) ==
    IF setup_stderr_code # None THEN setup_stderr_code ELSE setup_stdout_code

\* line 98: stdout's setup code if there is one, else stderr's
select_setup_code(setup_stdout_code, setup_stderr_code) ==
    IF setup_stdout_code # None THEN setup_stdout_code ELSE setup_stderr_code

\* mutant: empty test contents do not count as a failed setup
setup_failed_sentinel_only(setup_returncode, pytest_stdout, pytest_stderr) ==
    setup_returncode = Some(-1)

\* mutant: a setup that never ended does not count as failed
setup_failed_empty_only(setup_returncode, pytest_stdout, pytest_stderr) ==
    pytest_stdout = <<>> /\ pytest_stderr = <<>>

\* line 102: setup failed and pytest never ran
setup_failed(setup_returncode, pytest_stdout, pytest_stderr) ==
    \/ setup_returncode = Some(-1)
    \/ (pytest_stdout = <<>> /\ pytest_stderr = <<>>)

\* lines 98-119, with the two streams split
reconcile(exit_code, out, err) ==
    LET setup_returncode == select_setup_code(out[3], err[3])
        failed == setup_failed(setup_returncode, out[1], err[1])
    IN  << CommandResult(<<>>,
                         IF failed THEN None ELSE Some(exit_code),
                         out[1], err[1]),
           CommandResult(<<>>,
                         IF failed THEN Some(exit_code) ELSE setup_returncode,
                         out[2], err[2]) >>

\* _parse_sandbox_result: <<pytest result, setup result>>
_parse_sandbox_result(sr) ==
    reconcile(sr.exit_code, _split_stream(sr.stdout), _split_stream(sr.stderr))

\* UnitTestResult: a CommandResult with the two counts
UnitTestResult(command, returncode, num_passed, num_failed, stdout, stderr) ==
    [command |-> command, returncode |-> returncode,
     num_passed |-> num_passed, num_failed |-> num_failed,
     stdout |-> stdout, stderr |-> stderr]

\* SandboxResult, as SandboxRunner.run returns it
SandboxResult(exit_code, stdout, stderr) ==
    [exit_code |-> exit_code, stdout |-> stdout, stderr |-> stderr]

----------------------------------------------------------------------------
(* run_unit_tests_action *)

\* the defaults of run_unit_tests
resolved_property == "test_result"
resolved_filename == "test_main.py"

\* [f"python -m pytest -v '{resolved_filename}'"]
command == <<"python -m pytest -v 'test_main.py'">>

\* what the configuration may resolve to
SandboxValues ==
    {None, PyStr(""), PyStr("docker"), PyInt(0), PyInt(7),
     PyList(<<>>), PyList(<<"docker">>)}
SetupPropertyValues == {None, PyStr("setup_result")}

\* exit codes of the sandboxed command: success, a failure, a kill
ExitCodes == {0, 1, 137}

\* the counts the text parser may report
ParsedCounts == {<<0, 0>>, <<3, 1>>}

\* what run_python_unit_tests may return
LocalResults ==
    {UnitTestResult(command, Some(0), 3, 0, <<"x">>, <<>>),
     UnitTestResult(command, Some(1), 3, 1, <<"x">>, <<"x">>)}

MaxWrites == 4

UtInit ==
    /\ ut_pc = "ready"
    /\ resolved_sandbox \in SandboxValues
    /\ resolved_setup_property \in SetupPropertyValues
    /\ proc_stdout = <<>>
    /\ proc_stderr = <<>>
    /\ proc_writes = 0
    /\ returned_result = Unbound
    /\ sandbox_result = Unbound
    /\ pytest_result = Unbound
    /\ setup_result = Unbound
    /\ pushes = <<>>
    /\ sandbox_runs = 0
    /\ local_runs = 0
    /\ raised = "none"

\* item.push({key: value}, run_unit_tests)
push(key, value) == [key |-> key, value |-> value]

\* lines 79-82: publish the result, then the setup result if there is one
\* and a key for it; reading setup_result when no branch assigned it raises
PublishedBy(result, setup) ==
    <<push(resolved_property, result)>> \o
    (IF setup # Unbound /\ setup # None /\ truthy(resolved_setup_property)
     THEN <<push(resolved_setup_property.value, setup)>>
     ELSE <<>>)

RaisedBy(setup) == IF setup = Unbound THEN "UnboundLocalError" ELSE "none"

\* lines 42-46, the sandbox is no string: ValueError
RaiseConfigurationError ==
    /\ ut_pc = "ready"
    /\ truthy(resolved_sandbox)
    /\ ~isinstance_str(resolved_sandbox)
    /\ raised' = "ValueError"
    /\ ut_pc' = "raised"
    /\ UNCHANGED <<resolved_sandbox, resolved_setup_property, proc_stdout,
                   proc_stderr, proc_writes, returned_result, sandbox_result,
                   pytest_result, setup_result, pushes, sandbox_runs, local_runs>>
    /\ UNCHANGED <<splitVars, appVars>>

\* lines 42-57, up to the await of sandbox_manager.run
StartSandboxRun ==
    /\ ut_pc = "ready"
    /\ truthy(resolved_sandbox)
    /\ isinstance_str(resolved_sandbox)
    /\ sandbox_runs' = sandbox_runs + 1
    /\ ut_pc' = "awaiting_sandbox"
    /\ UNCHANGED <<resolved_sandbox, resolved_setup_property, proc_stdout,
                   proc_stderr, proc_writes, returned_result, sandbox_result,
                   pytest_result, setup_result, pushes, local_runs, raised>>
    /\ UNCHANGED <<splitVars, appVars>>

\* the sandboxed process writes a piece to one of its two streams
SandboxWrites(piece, to_stderr) ==
    /\ ut_pc = "awaiting_sandbox"
    /\ proc_writes < MaxWrites
    /\ proc_writes' = proc_writes + 1
    /\ IF to_stderr
       THEN proc_stderr' = proc_stderr \o piece /\ UNCHANGED proc_stdout
       ELSE proc_stdout' = proc_stdout \o piece /\ UNCHANGED proc_stderr
    /\ UNCHANGED <<ut_pc, resolved_sandbox, resolved_setup_property,
                   returned_result, sandbox_result, pytest_result, setup_result,
                   pushes, sandbox_runs, local_runs, raised>>
    /\ UNCHANGED <<splitVars, appVars>>

\* parse_python_unit_test_results, with the counts it read
parse_python_unit_test_results(sr, counts) ==
    UnitTestResult(<<>>, Some(sr.exit_code), counts[1], counts[2],
                   sr.stdout, sr.stderr)

\* mutant: tests that never ran are reported with the returncode 0
SynthesizedResult_zero(pytest, sr, counts) ==
    IF pytest.returncode # None
    THEN [parse_python_unit_test_results(sr, counts) EXCEPT !.command = command]
    ELSE UnitTestResult(command, Some(0), 0, 0, pytest.stdout, pytest.stderr)

\* lines 60-74: the UnitTestResult of the sandboxed run
SynthesizedResult(pytest, sr, counts) ==
    IF pytest.returncode # None
    THEN [parse_python_unit_test_results(sr, counts) EXCEPT !.command = command]
    ELSE UnitTestResult(command, None, 0, 0, pytest.stdout, pytest.stderr)

\* lines 60-62: the SandboxResult object after the action wrote to it
SandboxResultAfter(pytest, sr) ==
    IF pytest.returncode # None
    THEN [sr EXCEPT !.stdout = pytest.stdout, !.stderr = pytest.stderr]
    ELSE sr

\* lines 51-82: sandbox_manager.run returns and the action runs to its end
SandboxRunReturns(exit_code, counts) ==
    /\ ut_pc = "awaiting_sandbox"
    /\ returned_result' = SandboxResult(exit_code, proc_stdout, proc_stderr)
    /\ \E parsed \in {_parse_sandbox_result(returned_result')} :
          /\ pytest_result' = parsed[1]
          /\ setup_result' = parsed[2]
    /\ sandbox_result' = SandboxResultAfter(pytest_result', returned_result')
    /\ pushes' = pushes \o
          PublishedBy(SynthesizedResult(pytest_result', sandbox_result', counts),
                      setup_result')
    /\ raised' = RaisedBy(setup_result')
    /\ ut_pc' = IF raised' = "none" THEN "done" ELSE "raised"
    /\ UNCHANGED <<resolved_sandbox, resolved_setup_property, proc_stdout,
                   proc_stderr, proc_writes, sandbox_runs, local_runs>>
    /\ UNCHANGED <<splitVars, appVars>>

\* lines 75-82: no sandbox, the tests run locally
RunLocally(result) ==
    /\ ut_pc = "ready"
    /\ ~truthy(resolved_sandbox)
    /\ local_runs' = local_runs + 1
    /\ pushes' = pushes \o PublishedBy(result, setup_result)
    /\ raised' = RaisedBy(setup_result)
    /\ ut_pc' = IF RaisedBy(setup_result) = "none" THEN "done" ELSE "raised"
    /\ UNCHANGED <<resolved_sandbox, resolved_setup_property, proc_stdout,
                   proc_stderr, proc_writes, returned_result, sandbox_result,
                   pytest_result, setup_result, sandbox_runs>>
    /\ UNCHANGED <<splitVars, appVars>>

\* no unit test action is being run
UtIdle ==
    /\ ut_pc = "idle"
    /\ resolved_sandbox = None
    /\ resolved_setup_property = None
    /\ proc_stdout = <<>>
    /\ proc_stderr = <<>>
    /\ proc_writes = 0
    /\ returned_result = Unbound
    /\ sandbox_result = Unbound
    /\ pytest_result = Unbound
    /\ setup_result = Unbound
    /\ pushes = <<>>
    /\ sandbox_runs = 0
    /\ local_runs = 0
    /\ raised = "none"

\* _split_stream is not being called
SplitIdle == output = <<>> /\ split_out = NotCalled

----------------------------------------------------------------------------
(* FullDisplayApp: the pipeline worker, quit and the delayed cancellation.  *)
(* Time goes in steps of a tenth of a second. The event loop runs what is   *)
(* ready (a created task, a posted callback, a pending refresh) before a    *)
(* tenth of a second has gone by.                                           *)

\* _cancel_pipeline(delay_seconds = 0.1), in tenths of a second
delay_seconds == 1

MaxQuits == 3

\* Worker.is_finished, Worker.is_running
is_finished(w) == w \in {"SUCCESS", "ERROR", "CANCELLED"}
is_running(w) == w = "RUNNING"

AppInit ==
    /\ session = "constructed"
    /\ run_pipeline_pc = "awaiting_app"
    /\ no_exit \in BOOLEAN
    /\ _pipeline_worker = "None"
    /\ _is_quitting = FALSE
    /\ pipeline = "not_started"
    /\ outcome = "none"
    /\ cancel_cb = "none"
    /\ timer = 0
    /\ slept = 0
    /\ console = 0
    /\ active_tab = "none"
    /\ dirty = FALSE
    /\ notice_rendered = FALSE
    /\ cancel_scheduled = 0
    /\ cancel_signals = 0
    /\ exit_calls = 0
    /\ quit_requests = 0
    /\ error_reported = FALSE

\* no display is being run
AppIdle ==
    /\ session = "none"
    /\ run_pipeline_pc = "none"
    /\ no_exit = FALSE
    /\ _pipeline_worker = "None"
    /\ _is_quitting = FALSE
    /\ pipeline = "not_started"
    /\ outcome = "none"
    /\ cancel_cb = "none"
    /\ timer = 0
    /\ slept = 0
    /\ console = 0
    /\ active_tab = "none"
    /\ dirty = FALSE
    /\ notice_rendered = FALSE
    /\ cancel_scheduled = 0
    /\ cancel_signals = 0
    /\ exit_calls = 0
    /\ quit_requests = 0
    /\ error_reported = FALSE

\* on_mount: a tab is selected and the worker is created
on_mount ==
    /\ session = "constructed"
    /\ session' = "mounted"
    /\ active_tab' \in {"tab_pipeline", "tab_console"}
    /\ dirty' = TRUE
    /\ _pipeline_worker' = "PENDING"
    /\ UNCHANGED <<run_pipeline_pc, no_exit, _is_quitting, pipeline, outcome,
                   cancel_cb, timer, slept, console, notice_rendered,
                   cancel_scheduled, cancel_signals, exit_calls, quit_requests,
                   error_reported>>
    /\ UNCHANGED <<splitVars, utVars>>

\* the worker's task takes its first step: _run_pipeline awaits
\* self._pipeline.run, which announces itself (_on_pipeline_started)
_run_pipeline_starts ==
    /\ session = "mounted"
    /\ _pipeline_worker = "PENDING"
    /\ _pipeline_worker' = "RUNNING"
    /\ pipeline' = "running"
    /\ active_tab' = "tab_pipeline"
    /\ dirty' = TRUE
    /\ UNCHANGED <<session, run_pipeline_pc, no_exit, _is_quitting, outcome,
                   cancel_cb, timer, slept, console, notice_rendered,
                   cancel_scheduled, cancel_signals, exit_calls, quit_requests,
                   error_reported>>
    /\ UNCHANGED <<splitVars, utVars>>

\* the pipeline comes to its end or fails, and enters its own cleanup
pipeline_ends(how) ==
    /\ session = "mounted"
    /\ pipeline = "running"
    /\ pipeline' = "cleanup"
    /\ outcome' = how
    /\ UNCHANGED <<session, run_pipeline_pc, no_exit, _pipeline_worker,
                   _is_quitting, cancel_cb, timer, slept, console, active_tab,
                   dirty, notice_rendered, cancel_scheduled, cancel_signals,
                   exit_calls, quit_requests, error_reported>>
    /\ UNCHANGED <<splitVars, utVars>>

\* mutant: the finally forgets that the user is quitting
exits_in_finally_unless_no_exit == ~no_exit

\* mutant: the finally exits only for a user who is quitting
exits_in_finally_only_when_quitting == _is_quitting

\* mutant: the finally exits whatever the options are
exits_in_finally_always == TRUE

\* line 117: the condition of the exit in _run_pipeline's finally
exits_in_finally == _is_quitting \/ ~no_exit

\* lines 111-118: pipeline.run is over, with its cleanup; CancelledError is
\* swallowed, the finally exits or not, and an error fails the worker, which
\* was created with exit_on_error
_run_pipeline_resumes ==
    /\ session = "mounted"
    /\ pipeline = "cleanup"
    /\ pipeline' = "finished"
    /\ _pipeline_worker' = IF outcome = "error" THEN "ERROR" ELSE "SUCCESS"
    /\ error_reported' = (outcome = "error")
    /\ exit_calls' = IF exits_in_finally THEN exit_calls + 1 ELSE exit_calls
    /\ session' = IF exits_in_finally \/ outcome = "error" THEN "exited" ELSE session
    /\ UNCHANGED <<run_pipeline_pc, no_exit, _is_quitting, outcome, cancel_cb,
                   timer, slept, console, active_tab, dirty, notice_rendered,
                   cancel_scheduled, cancel_signals, quit_requests>>
    /\ UNCHANGED <<splitVars, utVars>>

\* mutant: action_quit has no guard against a second request
quit_is_never_noop == FALSE

\* line 141: the quit request is dropped
quit_is_noop == _is_quitting

\* mutant: the test of is_finished lost its `not`
worker_finished == _pipeline_worker # "None" /\ is_finished(_pipeline_worker)

\* mutant: a worker that is there is taken as unfinished
worker_present == _pipeline_worker # "None"

\* line 146: the worker is there and not finished
worker_unfinished == _pipeline_worker # "None" /\ ~is_finished(_pipeline_worker)

\* action_quit
action_quit ==
    /\ session \in {"constructed", "mounted"}
    /\ quit_requests < MaxQuits
    /\ quit_requests' = quit_requests + 1
    /\ IF quit_is_noop
       THEN UNCHANGED <<session, _is_quitting, console, active_tab, dirty,
                        cancel_scheduled, cancel_cb, exit_calls>>
       ELSE /\ _is_quitting' = TRUE
            /\ IF worker_unfinished
               THEN /\ console' = console + 1
                    /\ active_tab' = "tab_console"
                    /\ dirty' = TRUE
                    /\ cancel_scheduled' = cancel_scheduled + 1
                    /\ cancel_cb' = "posted"
                    /\ UNCHANGED <<session, exit_calls>>
               ELSE /\ exit_calls' = exit_calls + 1
                    /\ session' = "exited"
                    /\ UNCHANGED <<console, active_tab, dirty, cancel_scheduled,
                                   cancel_cb>>
    /\ UNCHANGED <<run_pipeline_pc, no_exit, _pipeline_worker, pipeline, outcome,
                   timer, slept, notice_rendered, cancel_signals, error_reported>>
    /\ UNCHANGED <<splitVars, utVars>>

\* the callback posted by call_later starts and sleeps
_cancel_after_delay_starts ==
    /\ session = "mounted"
    /\ cancel_cb = "posted"
    /\ cancel_cb' = "sleeping"
    /\ timer' = delay_seconds
    /\ slept' = 0
    /\ UNCHANGED <<session, run_pipeline_pc, no_exit, _pipeline_worker,
                   _is_quitting, pipeline, outcome, console, active_tab, dirty,
                   notice_rendered, cancel_scheduled, cancel_signals, exit_calls,
                   quit_requests, error_reported>>
    /\ UNCHANGED <<splitVars, utVars>>

\* a tenth of a second goes by, once nothing is ready to run
Tick ==
    /\ session = "mounted"
    /\ cancel_cb = "sleeping"
    /\ timer > 0
    /\ ~dirty
    /\ _pipeline_worker # "PENDING"
    /\ timer' = timer - 1
    /\ slept' = slept + 1
    /\ UNCHANGED <<session, run_pipeline_pc, no_exit, _pipeline_worker,
                   _is_quitting, pipeline, outcome, cancel_cb, console,
                   active_tab, dirty, notice_rendered, cancel_scheduled,
                   cancel_signals, exit_calls, quit_requests, error_reported>>
    /\ UNCHANGED <<splitVars, utVars>>

\* mutant: the sleep is not awaited
sleep_not_awaited == TRUE

\* line 130: the sleep is over
sleep_over == timer = 0

\* line 131: the worker is still running
cancel_due ==
    /\ _pipeline_worker # "None"
    /\ ~is_finished(_pipeline_worker)
    /\ is_running(_pipeline_worker)

\* lines 130-132: after the sleep, cancel the worker if it still runs;
\* CancelledError is thrown into pipeline.run, which unwinds
_cancel_after_delay_wakes ==
    /\ session = "mounted"
    /\ cancel_cb = "sleeping"
    /\ sleep_over
    /\ cancel_cb' = "done"
    /\ IF cancel_due
       THEN /\ cancel_signals' = cancel_signals + 1
            /\ pipeline' = "cleanup"
            /\ outcome' = "cancelled"
       ELSE UNCHANGED <<cancel_signals, pipeline, outcome>>
    /\ UNCHANGED <<session, run_pipeline_pc, no_exit, _pipeline_worker,
                   _is_quitting, timer, slept, console, active_tab, dirty,
                   notice_rendered, cancel_scheduled, exit_calls, quit_requests,
                   error_reported>>
    /\ UNCHANGED <<splitVars, utVars>>

\* the screen is refreshed
Render ==
    /\ session = "mounted"
    /\ dirty
    /\ dirty' = FALSE
    /\ notice_rendered' = (notice_rendered \/ console > 0)
    /\ UNCHANGED <<session, run_pipeline_pc, no_exit, _pipeline_worker,
                   _is_quitting, pipeline, outcome, cancel_cb, timer, slept,
                   console, active_tab, cancel_scheduled, cancel_signals,
                   exit_calls, quit_requests, error_reported>>
    /\ UNCHANGED <<splitVars, utVars>>

\* FullDisplay.run_pipeline: app.run_async() returns once the app has exited
run_pipeline_returns ==
    /\ session = "exited"
    /\ run_pipeline_pc = "awaiting_app"
    /\ run_pipeline_pc' = "returned"
    /\ UNCHANGED <<session, no_exit, _pipeline_worker, _is_quitting, pipeline,
                   outcome, cancel_cb, timer, slept, console, active_tab, dirty,
                   notice_rendered, cancel_scheduled, cancel_signals, exit_calls,
                   quit_requests, error_reported>>
    /\ UNCHANGED <<splitVars, utVars>>

----------------------------------------------------------------------------
(* Specifications *)

SplitSpecInit == SplitInit /\ UtIdle /\ AppIdle
SplitNext == SplitCall
SplitSpec == SplitSpecInit /\ [][SplitNext]_vars

ActionInit == UtInit /\ SplitIdle /\ AppIdle
ActionNext ==
    \/ RaiseConfigurationError
    \/ StartSandboxRun
    \/ \E piece \in ProcWrites, to_stderr \in BOOLEAN : SandboxWrites(piece, to_stderr)
    \/ \E exit_code \in ExitCodes, counts \in ParsedCounts :
          SandboxRunReturns(exit_code, counts)
    \/ \E result \in LocalResults : RunLocally(result)
ActionSpec == ActionInit /\ [][ActionNext]_vars

DisplayInit == AppInit /\ SplitIdle /\ UtIdle
DisplayNext ==
    \/ on_mount
    \/ _run_pipeline_starts
    \/ \E how \in {"ok", "error"} : pipeline_ends(how)
    \/ _run_pipeline_resumes
    \/ action_quit
    \/ _cancel_after_delay_starts
    \/ Tick
    \/ _cancel_after_delay_wakes
    \/ Render
    \/ run_pipeline_returns
DisplaySpec == DisplayInit /\ [][DisplayNext]_vars

\* the event loop runs every task and callback that is ready, and time goes
\* by; the pipeline, once it is in its cleanup, gets through it. Nothing
\* makes the pipeline end by itself, and nothing makes the user quit.
DisplayFairness ==
    /\ WF_vars(on_mount)
    /\ WF_vars(_run_pipeline_starts)
    /\ WF_vars(_run_pipeline_resumes)
    /\ WF_vars(_cancel_after_delay_starts)
    /\ WF_vars(Tick)
    /\ WF_vars(_cancel_after_delay_wakes)
    /\ WF_vars(Render)
    /\ WF_vars(run_pipeline_returns)
FairDisplaySpec == DisplayInit /\ [][DisplayNext]_vars /\ DisplayFairness

----------------------------------------------------------------------------
(* What the claims say, said without the operators of the program *)

\* the number of line breaks s starts with
LeadingNewlines(s) ==
    Min({k \in 0..Len(s) : k = Len(s) \/ s[k + 1] # "\n"})

\* the number of line breaks s ends with
TrailingNewlines(s) ==
    Min({k \in 0..Len(s) : k = Len(s) \/ s[Len(s) - k] # "\n"})

\* s without the line breaks at its two ends
Trimmed(s) ==
    IF LeadingNewlines(s) = Len(s) THEN <<>>
    ELSE SubSeq(s, LeadingNewlines(s) + 1, Len(s) - TrailingNewlines(s))

\* the 0-based places where the start marker stands in s
StartMarkers(s) == {k \in 0..Len(s) : OccursAt(s, SETUP_START, k)}

\* an end marker with n digits stands in s at the 0-based place k
IsEndMarker(s, k, n) ==
    /\ n >= 1
    /\ k + Len(SETUP_END_HEAD) + n + Len(SETUP_END_TAIL) <= Len(s)
    /\ OccursAt(s, SETUP_END_HEAD, k)
    /\ \A i \in 1..n : s[k + Len(SETUP_END_HEAD) + i] \in Digits
    /\ OccursAt(s, SETUP_END_TAIL, k + Len(SETUP_END_HEAD) + n)

\* the end markers of s that start at the place `from` or later: <<place, digits>>
EndMarkersFrom(s, from) ==
    UNION { {<<k, n>> : n \in {d \in 1..(Len(s) - k) : IsEndMarker(s, k, d)}} :
            k \in {j \in from..Len(s) : OccursAt(s, SETUP_END_HEAD, j)} }

\* the number a run of digits writes
Decimal(ds) ==
    LET val[i \in 0..Len(ds)] ==
            IF i = 0 THEN 0 ELSE 10 * val[i - 1] + DigitValue(ds[i])
    IN  val[Len(ds)]

\* what the spec says split returns for the text t
ExpectedSplit(t) ==
    IF StartMarkers(t) = {}
    THEN <<Trimmed(t), <<>>, None>>
    ELSE LET after == Min(StartMarkers(t)) + Len(SETUP_START)
             ends == EndMarkersFrom(t, after)
         IN  IF ends = {}
             THEN <<<<>>, Trimmed(SubSeq(t, after + 1, Len(t))), Some(-1)>>
             ELSE LET m == CHOOSE e \in ends : \A f \in ends : e[1] <= f[1]
                      digits_at == m[1] + Len(SETUP_END_HEAD)
                      past == digits_at + m[2] + Len(SETUP_END_TAIL)
                  IN  << Trimmed(SubSeq(t, past + 1, Len(t))),
                         Trimmed(SubSeq(t, after + 1, m[1])),
                         Some(Decimal(SubSeq(t, digits_at + 1, digits_at + m[2]))) >>

\* C1: reconcile returns a test result with no returncode and a setup result
\* with the sandbox's exit code exactly when the selected setup code (stdout's
\* if there is one, else stderr's) is -1 or both test contents are empty;
\* otherwise the test returncode is the exit code and the setup returncode is
\* the selected code, or None when no stream has one.
C1_Reconcile ==
    returned_result # Unbound =>
        \A out \in {_split_stream(returned_result.stdout)} :
        \A err \in {_split_stream(returned_result.stderr)} :
            LET selected == IF out[3] # None THEN out[3] ELSE err[3]
                never_ran == selected = Some(-1) \/ (out[1] = <<>> /\ err[1] = <<>>)
                exit_code == Some(returned_result.exit_code)
            IN  /\ never_ran <=>
                       /\ pytest_result.returncode = None
                       /\ setup_result.returncode = exit_code
                /\ ~never_ran =>
                       /\ pytest_result.returncode = exit_code
                       /\ setup_result.returncode = selected

\* C1 witness: both test contents are empty, stdout carries the setup code 0,
\* and the setup result has the exit code 137 of the sandbox
C1_Witness ==
    /\ returned_result # Unbound
    /\ returned_result.stdout = SETUP_START \o END0
    /\ returned_result.exit_code = 137
    /\ pytest_result.returncode = None
    /\ setup_result.returncode = Some(137)

\* C2: split returns (the text trimmed, "", None) without a start marker;
\* ("", what follows the first start marker, trimmed, -1) when no end marker
\* follows it; and (what follows the first end marker after the start
\* marker, what stands between the two, both trimmed, the marker's number)
\* when both are there.
C2_Split ==
    split_out.called => split_out.value = ExpectedSplit(output)

\* C2 witness: both markers, with a line between them that is trimmed
C2_Witness ==
    /\ split_out.called
    /\ output = SETUP_START \o <<"\n", "a", " ", "b", "\n">> \o END1
    /\ split_out.value = << <<>>, <<"a", " ", "b">>, Some(1) >>

\* C3: exit is never invoked, and the session never ends, while the pipeline
\* task has started and has not come out of its own cleanup, however the task
\* ends (normally, with an error, cancelled after a quit request).
C3_NoExitBeforeCleanup ==
    (exit_calls > 0 \/ session = "exited") =>
        pipeline \in {"not_started", "finished"}

\* C3 witness: the session ended after a cancelled pipeline got through its cleanup
C3_Witness ==
    /\ session = "exited"
    /\ cancel_signals = 1
    /\ outcome = "cancelled"
    /\ pipeline = "finished"

\* C4: whatever the number of quit requests while the pipeline task runs,
\* there is one cleanup notice, one scheduled cancellation and at most one
\* cancellation signal; a quit request after the first changes nothing.
C4_QuitOnce ==
    [][ /\ console' <= 1
        /\ cancel_scheduled' <= 1
        /\ cancel_signals' <= 1
        /\ (quit_requests' # quit_requests /\ _pipeline_worker \in {"PENDING", "RUNNING"})
              => (console' = 1 /\ cancel_scheduled' = 1)
        /\ (quit_requests' # quit_requests /\ _is_quitting)
              => UNCHANGED <<session, run_pipeline_pc, no_exit, _pipeline_worker,
                             _is_quitting, pipeline, outcome, cancel_cb, timer,
                             slept, console, active_tab, dirty, notice_rendered,
                             cancel_scheduled, cancel_signals, exit_calls,
                             error_reported>>
      ]_vars

\* C4 witness: three quit requests while the pipeline runs, one notice, one
\* scheduled cancellation, one signal
C4_Witness ==
    /\ quit_requests = 3
    /\ _pipeline_worker = "RUNNING"
    /\ console = 1
    /\ cancel_scheduled = 1
    /\ cancel_signals = 1

C6_QuitEndsSession ==
    /\ (_is_quitting /\ console > 0) ~> (session = "exited")
    /\ [](outcome = "cancelled" /\ pipeline = "finished"
            => ~error_reported /\ _pipeline_worker = "SUCCESS")

\* C6 witness: with no_exit, the session ended after a cancellation
C6_Witness ==
    /\ no_exit
    /\ session = "exited"
    /\ outcome = "cancelled"
    /\ exit_calls = 1
    /\ ~error_reported

\* C7: with no sandbox, the action runs the tests locally, publishes one
\* value, the local result under the test-result key, nothing for setup, and
\* ends without raising.
C7_LocalRunCompletes ==
    (resolved_sandbox = None /\ ut_pc \notin {"idle", "ready"}) =>
        /\ local_runs = 1
        /\ sandbox_runs = 0
        /\ Len(pushes) = 1
        /\ pushes[1].key = resolved_property
        /\ pushes[1].value \in LocalResults
        /\ raised = "none"
        /\ ut_pc = "done"

\* the pushes under the setup-result key
SetupPushes == {i \in 1..Len(pushes) : pushes[i].key = "setup_result"}

\* C8: in the sandboxed path a setup result is published only when a start
\* marker stands in stdout or stderr and a setup-result key is configured;
\* with no start marker the test result is the only publish.
C8_SetupPublishedWhenDetected ==
    (returned_result # Unbound /\ ut_pc = "done") =>
        LET detected == \/ StartMarkers(returned_result.stdout) # {}
                        \/ StartMarkers(returned_result.stderr) # {}
        IN  /\ SetupPushes # {} => (detected /\ truthy(resolved_setup_property))
            /\ ~detected => (Len(pushes) = 1 /\ pushes[1].key = resolved_property)

\* C9: a sandbox that is given and is no string makes the action raise the
\* configuration error before the sandbox or the local runner is called, and
\* nothing is published.
C9_NonStringSandboxRaises ==
    (/\ ut_pc \notin {"idle", "ready"}
     /\ resolved_sandbox # None
     /\ resolved_sandbox.type # "str") =>
        /\ raised = "ValueError"
        /\ sandbox_runs = 0
        /\ local_runs = 0
        /\ pushes = <<>>

\* C10: when reconcile gives a test result with no returncode, the result
\* published under the test-result key has no returncode (not 0), zero passed,
\* zero failed, the reconciled test contents, the command; it is no success.
C10_NeverRanIsPublishedAsSuch ==
    (returned_result # Unbound /\ pytest_result.returncode = None) =>
        /\ Len(pushes) >= 1
        /\ pushes[1].key = resolved_property
        /\ pushes[1].value.returncode = None
        /\ pushes[1].value.returncode # Some(0)
        /\ pushes[1].value.num_passed = 0
        /\ pushes[1].value.num_failed = 0
        /\ pushes[1].value.stdout = pytest_result.stdout
        /\ pushes[1].value.stderr = pytest_result.stderr
        /\ pushes[1].value.command = command
        /\ ~success(pushes[1].value)

\* C10 witness: setup never ended on stdout, stderr has text, the exit code is
\* 0, and the published result has no returncode
C10_Witness ==
    /\ returned_result # Unbound
    /\ returned_result.exit_code = 0
    /\ returned_result.stdout = SETUP_START \o <<"x">>
    /\ pytest_result.returncode = None
    /\ pushes[1].value.returncode = None
    /\ pushes[1].value.stderr = <<"x">>

\* C11 as stated: whenever split gives a setup code for stdout and a different
\* one for stderr, the setup result of reconcile has stdout's code.
C11_StdoutCodeWins ==
    returned_result # Unbound =>
        \A out \in {_split_stream(returned_result.stdout)} :
        \A err \in {_split_stream(returned_result.stderr)} :
            (out[3] # None /\ err[3] # None /\ out[3] # err[3]) =>
                setup_result.returncode = out[3]

\* C11: whenever split gives a setup code for stdout and a different one for
\* stderr, the setup result of reconcile has stdout's code, unless the
\* promotion applies (stdout's code is -1, or both test contents are empty):
\* then it has the exit code of the sandbox, and never stderr's code as such.
C11_StdoutCodeWinsUnlessPromoted ==
    returned_result # Unbound =>
        \A out \in {_split_stream(returned_result.stdout)} :
        \A err \in {_split_stream(returned_result.stderr)} :
            (out[3] # None /\ err[3] # None /\ out[3] # err[3]) =>
                LET promoted == out[3] = Some(-1) \/ (out[1] = <<>> /\ err[1] = <<>>)
                IN  setup_result.returncode =
                        IF promoted THEN Some(returned_result.exit_code) ELSE out[3]

\* C11 witness: stdout has the setup code 0 and a line of tests, stderr has
\* a start marker alone (the code -1), the sandbox exits with 137, and the
\* setup result has 0
C11_Witness ==
    /\ returned_result # Unbound
    /\ returned_result.stdout = SETUP_START \o END0 \o <<"x">>
    /\ returned_result.stderr = SETUP_START
    /\ returned_result.exit_code = 137
    /\ pytest_result.returncode = Some(137)
    /\ setup_result.returncode = Some(0)

\* C12: once the pipeline has completed normally with no_exit false, and as
\* long as no quit is requested, the session ends and run_pipeline returns;
\* it returns only from an ended session, and no error is reported.
C12_CompletedSessionReturns ==
    /\ (outcome = "ok" /\ ~no_exit) ~>
           (run_pipeline_pc = "returned" \/ quit_requests > 0)
    /\ [](run_pipeline_pc = "returned" => session = "exited")
    /\ []((outcome = "ok" /\ ~no_exit) => ~error_reported)

\* C12 witness: run_pipeline has returned after a normal completion, with
\* no_exit false and no quit request
C12_Witness ==
    /\ run_pipeline_pc = "returned"
    /\ ~no_exit
    /\ outcome = "ok"
    /\ quit_requests = 0
    /\ exit_calls = 1
    /\ _pipeline_worker = "SUCCESS"

\* C13: once the pipeline has completed normally with no_exit true,
\* run_pipeline returns even if no quit is ever requested.
C13_KeptOpenSessionReturns ==
    (outcome = "ok" /\ no_exit) ~>
        (run_pipeline_pc = "returned" \/ quit_requests > 0)

\* C14: with no_exit and a pipeline that completed normally, the session
\* stays open through every step as long as no quit was requested, and a
\* session that has ended in that case has seen a quit request.
C14_KeptOpenUntilQuit ==
    /\ []((session = "exited" /\ no_exit /\ outcome = "ok") => quit_requests > 0)
    /\ [][ (/\ no_exit
            /\ outcome = "ok"
            /\ session = "mounted"
            /\ quit_requests' = 0) => session' = "mounted" ]_vars

\* C14 witness: the pipeline has completed normally, the worker is over, and
\* with no_exit the session is still open, exit never called
C14_Witness ==
    /\ no_exit
    /\ outcome = "ok"
    /\ pipeline = "finished"
    /\ _pipeline_worker = "SUCCESS"
    /\ session = "mounted"
    /\ exit_calls = 0
    /\ quit_requests = 0

\* C15: a quit request that finds no worker yet, or a finished worker (that
\* of a completed pipeline kept open by no_exit too), ends the session in
\* the same step: exit is called, no notice is appended, the tab stays, and
\* no cancellation is scheduled or signalled.
C15_IdleQuitExitsAtOnce ==
    [][ (/\ quit_requests' # quit_requests
         /\ (_pipeline_worker = "None" \/ is_finished(_pipeline_worker))) =>
            /\ session' = "exited"
            /\ exit_calls' = exit_calls + 1
            /\ UNCHANGED <<console, active_tab, dirty, cancel_scheduled,
                           cancel_cb, cancel_signals>>
      ]_vars

\* C15 witness: the session kept open by no_exit after a normal completion
\* has ended at the first quit request, with no notice and no cancellation
C15_Witness ==
    /\ no_exit
    /\ outcome = "ok"
    /\ _pipeline_worker = "SUCCESS"
    /\ quit_requests = 1
    /\ session = "exited"
    /\ exit_calls = 1
    /\ console = 0
    /\ cancel_scheduled = 0

\* part is a slice of whole, and what whole has around it is line breaks only
NewlinesAround(whole, part) ==
    \E i \in 0..(Len(whole) - Len(part)) :
        /\ SubSeq(whole, i + 1, i + Len(part)) = part
        /\ \A k \in 1..i : whole[k] = "\n"
        /\ \A k \in (i + Len(part) + 1)..Len(whole) : whole[k] = "\n"

\* C16 as stated: for a text with one start marker and one end marker after
\* it, the setup content and then the test content make up exactly what
\* follows the start marker, without the end marker.
C16_ExactRemainder ==
    split_out.called =>
        \A starts \in {StartMarkers(output)} :
        \A ends \in {EndMarkersFrom(output, 0)} :
            (Cardinality(starts) = 1 /\ Cardinality(ends) = 1) =>
                \A k \in starts, m \in ends :
                    m[1] >= k + Len(SETUP_START) =>
                        LET past == m[1] + Len(SETUP_END_HEAD) + m[2] + Len(SETUP_END_TAIL)
                            between == SubSeq(output, k + Len(SETUP_START) + 1, m[1])
                            rest == SubSeq(output, past + 1, Len(output))
                        IN  split_out.value[2] \o split_out.value[1] = between \o rest

\* C16: for a text with one start marker and one end marker after it, the
\* setup content is a slice of what stands between the two markers and the
\* test content a slice of what follows the end marker, and each is that
\* region but for line breaks at the region's two ends.
C16_RemainderButNewlines ==
    split_out.called =>
        \A starts \in {StartMarkers(output)} :
        \A ends \in {EndMarkersFrom(output, 0)} :
            (Cardinality(starts) = 1 /\ Cardinality(ends) = 1) =>
                \A k \in starts, m \in ends :
                    m[1] >= k + Len(SETUP_START) =>
                        LET past == m[1] + Len(SETUP_END_HEAD) + m[2] + Len(SETUP_END_TAIL)
                            between == SubSeq(output, k + Len(SETUP_START) + 1, m[1])
                            rest == SubSeq(output, past + 1, Len(output))
                        IN  /\ NewlinesAround(between, split_out.value[2])
                            /\ NewlinesAround(rest, split_out.value[1])

\* C16 witness: a line before the start marker, a setup line with line
\* breaks around it, the end marker, a line of tests
C16_Witness ==
    /\ split_out.called
    /\ output = <<"x">> \o SETUP_START \o <<"\n", "a", " ", "b", "\n">> \o END0
    /\ split_out.value = << <<>>, <<"a", " ", "b">>, Some(0) >>

\* C17: when reconcile gives a test result with no returncode, the setup
\* result has a returncode, it is not 0, and the setup result is no success.
C17_AbsentTestsMeanFailedSetup ==
    (returned_result # Unbound /\ pytest_result.returncode = None) =>
        /\ setup_result.returncode # None
        /\ setup_result.returncode # Some(0)
        /\ ~success(setup_result)

\* the first start marker of s has no end marker after it
Incomplete(s) ==
    /\ StartMarkers(s) # {}
    /\ EndMarkersFrom(s, Min(StartMarkers(s)) + Len(SETUP_START)) = {}

\* C18 as stated: when stdout or stderr has a start marker and no end marker
\* after it, nothing is raised, the test result has no returncode and the
\* setup result has the exit code of the sandbox.
C18_IncompleteMarkerPromotes ==
    (/\ returned_result # Unbound
     /\ Incomplete(returned_result.stdout) \/ Incomplete(returned_result.stderr)) =>
        /\ raised = "none"
        /\ pytest_result.returncode = None
        /\ setup_result.returncode = Some(returned_result.exit_code)

\* the stream whose setup code reconcile takes: stdout if it has a start
\* marker, else stderr
SelectedStream(sr) ==
    IF StartMarkers(sr.stdout) # {} THEN sr.stdout ELSE sr.stderr

\* C18: when the stream whose setup code is taken (stdout if it has a start
\* marker, else stderr) has a start marker and no end marker after it,
\* nothing is raised, the test result has no returncode and the setup result
\* has the exit code of the sandbox, whatever the other stream holds.
C18_SelectedIncompleteMarkerPromotes ==
    (/\ returned_result # Unbound
     /\ Incomplete(SelectedStream(returned_result))) =>
        /\ raised = "none"
        /\ ut_pc = "done"
        /\ pytest_result.returncode = None
        /\ setup_result.returncode = Some(returned_result.exit_code)

\* C18 witness: stdout has a line of tests and no marker, stderr a start
\* marker and a line after it; the setup result has the exit code 1
C18_Witness ==
    /\ returned_result # Unbound
    /\ returned_result.stdout = <<"x">>
    /\ returned_result.stderr = SETUP_START \o <<"x">>
    /\ returned_result.exit_code = 1
    /\ raised = "none"
    /\ pytest_result.returncode = None
    /\ pytest_result.stdout = <<"x">>
    /\ setup_result.returncode = Some(1)
    /\ setup_result.stderr = <<"x">>

\* C19: the SandboxResult has, when the sandboxed invocation is over, the
\* exit_code, stdout and stderr it had when the adapter returned it.
C19_SandboxResultUntouched ==
    (returned_result # Unbound /\ ut_pc \in {"done", "raised"}) =>
        /\ sandbox_result.exit_code = returned_result.exit_code
        /\ sandbox_result.stdout = returned_result.stdout
        /\ sandbox_result.stderr = returned_result.stderr

\* the two regions of the text t before any trimming: <<what is test output,
\* what is setup output>>
Regions(t) ==
    IF StartMarkers(t) = {}
    THEN <<t, <<>>>>
    ELSE LET after == Min(StartMarkers(t)) + Len(SETUP_START)
             ends == EndMarkersFrom(t, after)
         IN  IF ends = {}
             THEN << <<>>, SubSeq(t, after + 1, Len(t)) >>
             ELSE LET m == CHOOSE e \in ends : \A f \in ends : e[1] <= f[1]
                      past == m[1] + Len(SETUP_END_HEAD) + m[2] + Len(SETUP_END_TAIL)
                  IN  << SubSeq(t, past + 1, Len(t)), SubSeq(t, after + 1, m[1]) >>

\* C20 as stated: for a text with at most one start marker and at most one
\* end marker, in any order, the test content and the setup content hold no
\* start marker and no end marker, and each is its region of the text but
\* for line breaks at the region's two ends.
C20_NoMarkerInContents ==
    split_out.called =>
        \A starts \in {StartMarkers(output)} :
        \A ends \in {EndMarkersFrom(output, 0)} :
            (Cardinality(starts) <= 1 /\ Cardinality(ends) <= 1) =>
                /\ \A i \in 1..2 :
                      /\ StartMarkers(split_out.value[i]) = {}
                      /\ EndMarkersFrom(split_out.value[i], 0) = {}
                /\ \A regions \in {Regions(output)} :
                      \A i \in 1..2 : NewlinesAround(regions[i], split_out.value[i])

\* C20: for a text with at most one start marker and at most one end marker,
\* in any order, that has a start marker or no end marker, the test content
\* and the setup content hold no start marker and no end marker; and for
\* every such text, a lone end marker too, each content is its region of the
\* text (the whole text, when there is no start marker) but for line breaks
\* at the region's two ends.
C20_NoMarkerInContentsAfterStart ==
    split_out.called =>
        \A starts \in {StartMarkers(output)} :
        \A ends \in {EndMarkersFrom(output, 0)} :
            (Cardinality(starts) <= 1 /\ Cardinality(ends) <= 1) =>
                /\ (starts # {} \/ ends = {}) =>
                      \A i \in 1..2 :
                          /\ StartMarkers(split_out.value[i]) = {}
                          /\ EndMarkersFrom(split_out.value[i], 0) = {}
                /\ \A regions \in {Regions(output)} :
                      \A i \in 1..2 : NewlinesAround(regions[i], split_out.value[i])

\* C20 witness: the end marker stands before the start marker; what follows
\* the start marker is the setup content, without the line breaks at its two
\* ends, with its blank, its inner line break, its tab and its carriage
\* return, and without a marker
C20_Witness ==
    /\ split_out.called
    /\ output = END0 \o SETUP_START \o <<"\n", "a", " ", "b", "\n">>
                     \o <<"\t", "x", "\r", "\n">>
    /\ split_out.value =
          << <<>>, <<"a", " ", "b", "\n", "\t", "x", "\r">>, Some(-1) >>

====
